---- MODULE Spec2Model ----
(***************************************************************************)
(* Static map render cache of TileStache.Goodies:                          *)
(*   Caches/StaticMapCache.py   Disk: lock, unlock, read, save             *)
(*   StaticMapServer.py         getStaticMap                               *)
(*   Providers/StaticMap.py     renderStaticMap and global_mapnik_lock     *)
(*                                                                         *)
(* Spec: several server processes run getStaticMap over and over for one   *)
(* cache key and share the cache directory; every system call of Disk is   *)
(* one step, so the calls of different processes interleave.               *)
(***************************************************************************)
EXTENDS Integers, FiniteSets, Sequences, TLC

\* ------------------------------------------------------------------ bounds
NProcs == 2
NThreads == 2

\* ------------------------------------------------------------ configuration
\* layer.stale_lock_timeout and the non-zero value of layer.cache_lifespan, in
\* clock ticks
StaleLockTimeout == 1
Lifespan == 1

\* Time is kept as ages: the age of a file is time.time() - st_mtime and a
\* waiter's waited is time.time() - (due - stale_lock_timeout).  The code only
\* compares an age with cache_lifespan and waited with stale_lock_timeout, so
\* an age stops counting one tick past the value it is compared with.
AgeCap == Lifespan + 1
WaitCap == StaleLockTimeout + 1
Min(a, b) == IF a < b THEN a ELSE b

Procs == 1..NProcs
Threads == 1..NThreads

\* ------------------------------------------------------------ Python values
\* Bodies are tagged by the process whose render produced them: 1..NProcs.
None == 0
Unbound == -1
EmptyBody == -2

NoExc == "NoExc"

VARIABLES
    \* configuration and platform, fixed for a run
    write_cache,        \* layer.write_cache
    cache_lifespan,     \* layer.cache_lifespan (0: never expires)
    renameOverwrites,   \* os.rename replaces an existing destination (POSIX) or raises (Windows)
    \* the shared storage
    file,               \* the artifact at fullpath: [exists, body, age]
    lockDir,            \* the directory fullpath + '.lock': [exists, age, by]
    tmp,                \* per process, the mkstemp file of its current call: [exists, body, age]
    \* getStaticMap, per process
    pc,
    ignore_cached,
    body,               \* local body
    tile,               \* local tile (None until rendered)
    save,               \* local save
    lockStaticMap,      \* local lockStaticMap is set
    waited,             \* Disk.lock: time.time() - (due - stale_lock_timeout), the time since the call
    exc,                \* the exception in flight
    \* history of the current call, per process
    lockReturned,       \* cache.lock returned normally
    unlocks,            \* number of cache.unlock calls
    saveFailed,         \* cache.save raised
    readWhy,            \* how the cache.read that has just ended ended: "absent", "expired",
                        \* "hit", "error"; "none" once the caller has moved on
    unlockNoop,         \* cache.unlock found no marker to remove
    noTileLeftBehind,   \* layer.render raised Core.NoTileLeftBehind
    \* history of the storage
    saveReturned,       \* some Disk.save has returned normally
    \* renderStaticMap in the threads of one process
    tpc,
    provider,           \* per thread, the provider class of its call: "Marker" or "Path"
    mapnikLock,         \* global_mapnik_lock: the thread that holds it, 0 when free
    \* Disk._filepath, called twice
    keyArgs,            \* per call, the arguments: layer.name(), the staticmap's fields, format
    keyPath,            \* per call, the path returned; <<>> before the call
    keyLockPath,        \* per call, what _lockpath returns for the same arguments
    \* WSGIServer.__call__ in the threads of one process, for one layer
    wpc,
    query,              \* per thread, the parsed query string of its request
    staticmap,          \* layer.staticmap: the StaticMaps object of the latest request
    served              \* per thread, the zooms that its getStaticMap did cache I/O and rendered with

cfgVars == <<write_cache, cache_lifespan, renameOverwrites>>
fsVars == <<file, lockDir, tmp>>
localVars == <<ignore_cached, body, tile, save, lockStaticMap, waited, exc>>
callHist == <<lockReturned, unlocks, saveFailed, readWhy, unlockNoop, noTileLeftBehind>>
histVars == <<callHist, saveReturned>>
cacheVars == <<cfgVars, fsVars, pc, localVars, histVars>>
renderVars == <<tpc, provider, mapnikLock>>
keyVars == <<keyArgs, keyPath, keyLockPath>>
serveVars == <<wpc, query, staticmap, served>>
vars == <<cacheVars, renderVars, keyVars, serveVars>>

\* what the steps of one component leave alone
sideVars == <<renderVars, keyVars, serveVars>>
renderOthers == <<cacheVars, keyVars, serveVars>>
keyOthers == <<cacheVars, renderVars, serveVars>>
serveOthers == <<cacheVars, renderVars, keyVars>>

NoFile == [exists |-> FALSE, body |-> None, age |-> 0]
NoDir == [exists |-> FALSE, age |-> 0, by |-> None]
NewDir == [exists |-> TRUE, age |-> 0, by |-> None]
\* the directory that the makedirs of process p created
MadeBy(p) == [NewDir EXCEPT !.by = p]

\* ----------------------------------------------------------- Disk._filepath
\* Text is a sequence of one-character strings.  Coordinates count in
\* 1/20000 degree, half of the 1/10000 degree that the key keeps.
Degree == 2 * 10000

\* "(c + 180) * 10000" of a coordinate in degrees is (c + 180 * Degree) / Cell
\* of the coordinate in units.
Cell == Degree \div 10000

DigitChars == <<"0", "1", "2", "3", "4", "5", "6", "7", "8", "9">>

RECURSIVE Digits(_)
Digits(n) == IF n < 10 THEN <<DigitChars[n + 1]>>
             ELSE Digits(n \div 10) \o <<DigitChars[(n % 10) + 1]>>

\* "'%d' % n" and "str(n)" of an integer
Str(n) == IF n < 0 THEN <<"-">> \o Digits(-n) ELSE Digits(n)

\* ToInt rounding to the nearest integer instead of truncating.
ToIntRounded(a, b) == (2 * a + b) \div (2 * b)

\* "int(a / b)" of a float: the fraction is cut off, towards zero
ToInt(a, b) == IF a >= 0 THEN a \div b ELSE -((-a) \div b)

\* "format.lower()"
LowerChar(c) ==
    CASE c = "P" -> "p"
      [] c = "N" -> "n"
      [] c = "G" -> "g"
      [] OTHER -> c

\* Lower that leaves the format as it is given.
LowerKept(t) == t

Lower(t) == [i \in 1..Len(t) |-> LowerChar(t[i])]

RECURSIVE LastSlash(_, _)
LastSlash(t, i) == IF i = 0 \/ t[i] = "/" THEN i ELSE LastSlash(t, i - 1)

\* "basename(icon)": what follows the last separator
basename(t) == SubSeq(t, LastSlash(t, Len(t)) + 1, Len(t))

\* "s.replace('.', '-')"
ReplaceDots(t) == [i \in 1..Len(t) |-> IF t[i] = "." THEN "-" ELSE t[i]]

RECURSIVE Join(_)
\* "os.sep.join(parts)"
Join(parts) == IF Len(parts) = 1 THEN parts[1]
               ELSE parts[1] \o <<"/">> \o Join(Tail(parts))

NoMarker == <<>>
NoPath == 0

\* a is one call's arguments: a.layer is layer.name(), a.format the format,
\* the other fields those of the staticmap; a.marker is the marker's icon
\* (NoMarker: staticmap.marker is None), a.path identifies the path's points
\* (NoPath: staticmap.path is None).
_filepath(a) ==
    LET l == a.layer
        z == Str(a.zoom)
        e == Lower(a.format)
        x == Str(ToInt(a.lon + 180 * Degree, Cell))
        y == Str(ToInt(a.lat + 90 * Degree, Cell))
        size == Str(a.width) \o <<"x">> \o Str(a.height)
    IN  IF a.marker # NoMarker
        THEN LET icon == ReplaceDots(basename(a.marker)) IN
             Join(<<l, z, x, y \o <<"_">> \o size \o <<"_">> \o icon \o <<".">> \o e>>)
        ELSE IF a.path # NoPath
        THEN Join(<<l, z, x, y \o <<"_">> \o size \o <<".">> \o e>>)
        ELSE Join(<<l, z, x, y \o <<"_">> \o size \o <<".">> \o e>>)

\* "self.cachepath = path": the cache root of the configuration
cachepath == <<"/", "t">>

\* "pathjoin(a, b)": b alone when it is absolute, otherwise a, a separator
\* unless a ends with one, and b
pathjoin(a, b) ==
    IF b # <<>> /\ b[1] = "/" THEN b
    ELSE IF a = <<>> \/ a[Len(a)] = "/" THEN a \o b
    ELSE a \o <<"/">> \o b

_fullpath(a) == pathjoin(cachepath, _filepath(a))

\* "return self._fullpath(layer, staticmap, format) + '.lock'"
_lockpath(a) == _fullpath(a) \o <<".", "l", "o", "c", "k">>

\* The arguments of the calls: two layers, two zooms, centres on both sides of
\* a 1/10000 degree line and at the western and southern edge, two sizes with
\* the same digits, no overlay, three marker icons and two paths.
KeyLayers == {<<"a">>, <<"b">>}
KeyZooms == {1, 12}
KeyLons == {-180 * Degree, 0, 1}
KeyLats == {-1, 0}
KeySizes == {<<1, 11>>, <<11, 1>>}
KeyIcons == {<<"a", ".", "b">>, <<"a", "-", "b">>, <<"c", "/", "a", ".", "b">>}
KeyPaths == {1, 2}
KeyOverlays ==
    {<<NoMarker, NoPath>>} \cup {<<i, NoPath>>: i \in KeyIcons}
        \cup {<<NoMarker, q>>: q \in KeyPaths}
KeyFormat == <<"P", "N", "G">>

\* layer 'markers', 600x300, zoom 8, center (12.0, -35.0), no overlay
KeyExample ==
    [layer |-> <<"m", "a", "r", "k", "e", "r", "s">>, zoom |-> 8,
     lon |-> (-35) * Degree, lat |-> 12 * Degree, width |-> 600, height |-> 300,
     marker |-> NoMarker, path |-> NoPath, format |-> KeyFormat]

KeyArgs ==
    {KeyExample} \cup
    {[layer |-> l, zoom |-> z, lon |-> lo, lat |-> la, width |-> sz[1], height |-> sz[2],
      marker |-> o[1], path |-> o[2], format |-> KeyFormat]:
        l \in KeyLayers, z \in KeyZooms, lo \in KeyLons, la \in KeyLats,
        sz \in KeySizes, o \in KeyOverlays}

KeyCalls == {1, 2}

\* No call of _filepath is under way.
KeyIdle ==
    /\ keyArgs = [i \in KeyCalls |-> CHOOSE a \in KeyArgs: TRUE]
    /\ keyPath = [i \in KeyCalls |-> <<>>]
    /\ keyLockPath = [i \in KeyCalls |-> <<>>]

\* ------------------------------------------------------- requests (values)
\* "assert 0 <= zoom <= 30" in ll2px and px2ll
MinZoom == 0
MaxZoom == 30

\* The zoom parameter of a request: int(query['zoom']) is any integer.
QueryZooms == {MinZoom - 1, MinZoom, MaxZoom, MaxZoom + 1}

\* The path parameter of a request, as the extent of its bounding box per
\* axis: the x and the y of addPath, "((maxLat-minLat)*merc_radius*math.pi) /
\* (180*self.height)" and the like for the longitudes; 0 when the points
\* agree in that coordinate.  NoExtent: the request has no path parameter.
NoExtent == <<>>
PathExtents == {<<0, 3>>, <<3, 1000>>, <<1000, 1000>>}

Queries ==
    [zoom: QueryZooms, markers: BOOLEAN, path: {NoExtent} \cup PathExtents]

\* the locals of __call__ before a request and after it
NoQuery == [zoom |-> MinZoom, markers |-> FALSE, path |-> NoExtent]

\* "StaticMaps(w, h, zoom)": center, marker and path are None
NewStaticMaps(zoom) == [zoom |-> zoom, center |-> FALSE, marker |-> FALSE, path |-> FALSE]

\* No request is being handled.  The layer gets its attribute staticmap with
\* the first request, which sets it before any use.
ServeIdle ==
    /\ wpc = [t \in Threads |-> "idle"]
    /\ query = [t \in Threads |-> NoQuery]
    /\ staticmap = NewStaticMaps(MinZoom)
    /\ served = [t \in Threads |-> {}]

\* ------------------------------------------------------------------- Init
\* No request is in progress.
CallsInit ==
    /\ file = NoFile
    /\ tmp = [p \in Procs |-> NoFile]
    /\ pc = [p \in Procs |-> "idle"]
    /\ ignore_cached = [p \in Procs |-> FALSE]
    /\ body = [p \in Procs |-> Unbound]
    /\ tile = [p \in Procs |-> None]
    /\ save = [p \in Procs |-> FALSE]
    /\ lockStaticMap = [p \in Procs |-> FALSE]
    /\ waited = [p \in Procs |-> 0]
    /\ exc = [p \in Procs |-> NoExc]
    /\ lockReturned = [p \in Procs |-> FALSE]
    /\ unlocks = [p \in Procs |-> 0]
    /\ saveFailed = [p \in Procs |-> FALSE]
    /\ readWhy = [p \in Procs |-> "none"]
    /\ unlockNoop = [p \in Procs |-> FALSE]
    /\ noTileLeftBehind = [p \in Procs |-> FALSE]
    /\ saveReturned = FALSE

\* "global_mapnik_lock = allocate_lock()"; no thread is rendering.
RenderInit ==
    /\ tpc = [t \in Threads |-> "idle"]
    /\ provider = [t \in Threads |-> "Marker"]
    /\ mapnikLock = 0

Init ==
    /\ write_cache \in BOOLEAN
    /\ cache_lifespan \in {0, Lifespan}
    /\ renameOverwrites \in BOOLEAN
    \* no marker, or one that a holder which died left behind long ago
    /\ lockDir \in {NoDir, [NewDir EXCEPT !.age = WaitCap]}
    /\ CallsInit
    /\ RenderInit
    /\ KeyIdle
    /\ ServeIdle

InLock(p) == pc[p] \in {"lock_loop", "lock_mkdir", "lock_sleep"}

Older(f, cap) == IF f.exists THEN [f EXCEPT !.age = Min(@ + 1, cap)] ELSE f

\* The clock advances by one tick.
Tick ==
    /\ file' = Older(file, AgeCap)
    /\ tmp' = [p \in Procs |-> Older(tmp[p], AgeCap)]
    /\ lockDir' = Older(lockDir, WaitCap)
    /\ waited' = [p \in Procs |-> IF InLock(p) THEN Min(waited[p] + 1, WaitCap) ELSE waited[p]]
    /\ UNCHANGED <<sideVars, cfgVars, pc, ignore_cached, body, tile, save, lockStaticMap, exc, histVars>>

\* ------------------------------------------------------ getStaticMap: entry
\* A request arrives: getStaticMap(layer, extension, ignore_cached).  With
\* ignore_cached the first read is skipped and "if body is None" evaluates a
\* local that was never assigned.
Start(p) ==
    /\ pc[p] = "idle"
    /\ \E ic \in BOOLEAN:
        /\ ignore_cached' = [ignore_cached EXCEPT ![p] = ic]
        /\ IF ic
           THEN /\ pc' = [pc EXCEPT ![p] = "raised"]
                /\ exc' = [exc EXCEPT ![p] = "UnboundLocalError"]
           ELSE /\ pc' = [pc EXCEPT ![p] = "r1_exists"]
                /\ exc' = exc
    /\ UNCHANGED <<sideVars, cfgVars, fsVars, body, tile, save, lockStaticMap, waited, histVars>>

\* getStaticMap has returned (mimetype, body) or raised; the process is ready
\* for its next request.  Its locals are gone.  A temporary file that a failed
\* save left in the cache root has a name no later call uses again: tmp keeps
\* it until here and then stops tracking it.
Finish(p) ==
    /\ pc[p] \in {"returned", "raised"}
    /\ pc' = [pc EXCEPT ![p] = "idle"]
    /\ ignore_cached' = [ignore_cached EXCEPT ![p] = FALSE]
    /\ body' = [body EXCEPT ![p] = Unbound]
    /\ tile' = [tile EXCEPT ![p] = None]
    /\ save' = [save EXCEPT ![p] = FALSE]
    /\ lockStaticMap' = [lockStaticMap EXCEPT ![p] = FALSE]
    /\ waited' = [waited EXCEPT ![p] = 0]
    /\ exc' = [exc EXCEPT ![p] = NoExc]
    /\ lockReturned' = [lockReturned EXCEPT ![p] = FALSE]
    /\ unlocks' = [unlocks EXCEPT ![p] = 0]
    /\ saveFailed' = [saveFailed EXCEPT ![p] = FALSE]
    /\ readWhy' = [readWhy EXCEPT ![p] = "none"]
    /\ unlockNoop' = [unlockNoop EXCEPT ![p] = FALSE]
    /\ noTileLeftBehind' = [noTileLeftBehind EXCEPT ![p] = FALSE]
    /\ tmp' = [tmp EXCEPT ![p] = NoFile]
    /\ UNCHANGED <<sideVars, cfgVars, file, lockDir, saveReturned>>

\* ---------------------------------------------------------------- Disk.read
\* Expired with the comparison off by one: an artifact expires at its lifespan.
ExpiredAtLifespan(age, lifespan) == lifespan # 0 /\ age >= lifespan

\* "layer.cache_lifespan and age > layer.cache_lifespan"
Expired(age, lifespan) == lifespan # 0 /\ age > lifespan

FirstReadPcs == {"r1_exists", "r1_stat"}
SecondReadPcs == {"r2_exists", "r2_stat"}

\* AfterRead without the re-check: what the read after the lock returns is not
\* looked at and the renderer is called.
AfterReadNoRecheck(p, v) ==
    IF pc[p] \in FirstReadPcs
    THEN (IF v = None THEN "try" ELSE "returned")
    ELSE "render"

\* AfterRead without the early return: a hit of the first read goes on to the
\* lock like a miss.
AfterReadAlwaysLock(p, v) ==
    IF pc[p] \in FirstReadPcs
    THEN "try"
    ELSE (IF v = None THEN "render" ELSE "finally")

\* Where getStaticMap goes when cache.read returns v: the first read is
\* outside the try block, the second one inside it, after the lock.
AfterRead(p, v) ==
    IF pc[p] \in FirstReadPcs
    THEN (IF v = None THEN "try" ELSE "returned")
    ELSE (IF v = None THEN "render" ELSE "finally")

\* Where getStaticMap goes when cache.read raises.
AfterReadRaise(p) == IF pc[p] \in FirstReadPcs THEN "raised" ELSE "finally"

ReadReturns(p, v, why) ==
    /\ body' = [body EXCEPT ![p] = v]
    /\ pc' = [pc EXCEPT ![p] = AfterRead(p, v)]
    /\ readWhy' = [readWhy EXCEPT ![p] = why]
    /\ exc' = exc

ReadRaises(p, e) ==
    /\ body' = body
    /\ pc' = [pc EXCEPT ![p] = AfterReadRaise(p)]
    /\ readWhy' = [readWhy EXCEPT ![p] = "error"]
    /\ exc' = [exc EXCEPT ![p] = e]

\* "if not exists(fullpath): return None"
ReadExists(p) ==
    /\ pc[p] \in {"r1_exists", "r2_exists"}
    /\ IF ~file.exists
       THEN ReadReturns(p, None, "absent")
       ELSE /\ pc' = [pc EXCEPT ![p] = IF pc[p] = "r1_exists" THEN "r1_stat" ELSE "r2_stat"]
            /\ UNCHANGED <<body, exc, readWhy>>
    /\ UNCHANGED <<sideVars, cfgVars, fsVars, ignore_cached, tile, save, lockStaticMap, waited,
                   lockReturned, unlocks, saveFailed, unlockNoop, noTileLeftBehind, saveReturned>>

\* "age = time.time() - os.stat(fullpath).st_mtime", the lifespan test and
\* "body = open(fullpath, 'rb').read()".  The stat and the open that follows
\* it are one step: a file that goes away between exists() and here makes the
\* read raise.
ReadStat(p) ==
    /\ pc[p] \in {"r1_stat", "r2_stat"}
    /\ IF ~file.exists
       THEN ReadRaises(p, "OSError")
       ELSE IF Expired(file.age, cache_lifespan)
       THEN ReadReturns(p, None, "expired")
       ELSE ReadReturns(p, file.body, "hit")
    /\ UNCHANGED <<sideVars, cfgVars, fsVars, ignore_cached, tile, save, lockStaticMap, waited,
                   lockReturned, unlocks, saveFailed, unlockNoop, noTileLeftBehind, saveReturned>>

\* ---------------------------------------------------------------- Disk.lock
\* DuePassed without the deadline: a waiter never removes the marker.
DueNeverPassed(w) == FALSE

\* "due = time.time() + layer.stale_lock_timeout" ... "if time.time() > due"
DuePassed(w) == w > StaleLockTimeout

\* Where getStaticMap goes when cache.lock returns.
AfterLock(p) == IF ~ignore_cached[p] THEN "r2_exists" ELSE "render"

\* "try: lockStaticMap = None; if layer.write_cache: ... cache.lock(...)"
TryBegin(p) ==
    /\ pc[p] = "try"
    /\ IF write_cache
       THEN /\ lockStaticMap' = [lockStaticMap EXCEPT ![p] = TRUE]
            /\ waited' = [waited EXCEPT ![p] = 0]
            /\ pc' = [pc EXCEPT ![p] = "lock_loop"]
       ELSE /\ pc' = [pc EXCEPT ![p] = AfterLock(p)]
            /\ UNCHANGED <<lockStaticMap, waited>>
    /\ readWhy' = [readWhy EXCEPT ![p] = "none"]
    /\ UNCHANGED <<sideVars, cfgVars, fsVars, ignore_cached, body, tile, save, exc,
                   lockReturned, unlocks, saveFailed, unlockNoop, noTileLeftBehind, saveReturned>>

LockAcquired(p) ==
    /\ lockDir' = MadeBy(p)
    /\ lockReturned' = [lockReturned EXCEPT ![p] = TRUE]
    /\ waited' = [waited EXCEPT ![p] = 0]
    /\ pc' = [pc EXCEPT ![p] = AfterLock(p)]

\* "except OSError, e: if e.errno != 17: raise" otherwise "time.sleep(.2)"
LockBusy(p) ==
    /\ pc' = [pc EXCEPT ![p] = "lock_sleep"]
    /\ UNCHANGED <<lockDir, lockReturned, waited>>

\* One turn of the while loop.  Past the deadline the marker is removed
\* (os.rmdir, OSError ignored) and the makedirs follows as a separate call;
\* before the deadline the turn is the makedirs alone.
LockAttempt(p) ==
    /\ pc[p] = "lock_loop"
    /\ IF DuePassed(waited[p])
       THEN /\ lockDir' = NoDir
            /\ pc' = [pc EXCEPT ![p] = "lock_mkdir"]
            /\ UNCHANGED <<lockReturned, waited>>
       ELSE IF lockDir.exists
       THEN LockBusy(p)
       ELSE LockAcquired(p)
    /\ UNCHANGED <<sideVars, cfgVars, file, tmp, ignore_cached, body, tile, save, lockStaticMap, exc,
                   unlocks, saveFailed, readWhy, unlockNoop, noTileLeftBehind, saveReturned>>

\* "os.makedirs(lockpath, ...)" after the forcible removal
LockMkdir(p) ==
    /\ pc[p] = "lock_mkdir"
    /\ IF lockDir.exists
       THEN LockBusy(p)
       ELSE LockAcquired(p)
    /\ UNCHANGED <<sideVars, cfgVars, file, tmp, ignore_cached, body, tile, save, lockStaticMap, exc,
                   unlocks, saveFailed, readWhy, unlockNoop, noTileLeftBehind, saveReturned>>

\* "time.sleep(.2)" is over: round the loop again
LockWake(p) ==
    /\ pc[p] = "lock_sleep"
    /\ pc' = [pc EXCEPT ![p] = "lock_loop"]
    /\ UNCHANGED <<sideVars, cfgVars, fsVars, localVars, histVars>>

\* makedirs fails with an errno other than 17: "raise"
LockFail(p) ==
    /\ pc[p] \in {"lock_loop", "lock_mkdir"}
    /\ exc' = [exc EXCEPT ![p] = "OSError"]
    /\ waited' = [waited EXCEPT ![p] = 0]
    /\ pc' = [pc EXCEPT ![p] = "finally"]
    /\ UNCHANGED <<sideVars, cfgVars, fsVars, ignore_cached, body, tile, save, lockStaticMap, histVars>>

\* ------------------------------------------------------------ layer.render
\* "tile = layer.render(...)": the renderer returns a tile, raises
\* Core.NoTileLeftBehind carrying a tile, or fails.  "if not
\* layer.write_cache: save = False"; tile.save(buff) gives the body; "if save:
\* cache.save(body, ...)" is entered.
\* SaveFlag without the except clause's "save = False": whatever the renderer
\* signalled, the tile is saved when the layer writes to the cache.
SaveFlagIgnoringSignal(outcome, wc) == wc

\* The local save when the body is ready: "save = True" after a render that
\* returned, "save = False" in "except Core.NoTileLeftBehind", and
\* "if not layer.write_cache: save = False".
SaveFlag(outcome, wc) == outcome = "ok" /\ wc

Render(p) ==
    /\ pc[p] = "render"
    /\ \E outcome \in {"ok", "NoTileLeftBehind", "error"}:
        IF outcome = "error"
        THEN /\ exc' = [exc EXCEPT ![p] = "RenderError"]
             /\ pc' = [pc EXCEPT ![p] = "finally"]
             /\ UNCHANGED <<tile, save, body, noTileLeftBehind>>
        ELSE LET sv == SaveFlag(outcome, write_cache) IN
             /\ noTileLeftBehind' = [noTileLeftBehind EXCEPT ![p] = (outcome = "NoTileLeftBehind")]
             /\ tile' = [tile EXCEPT ![p] = p]
             /\ save' = [save EXCEPT ![p] = sv]
             /\ body' = [body EXCEPT ![p] = p]
             /\ pc' = [pc EXCEPT ![p] = IF sv THEN "s_mkstemp" ELSE "finally"]
             /\ exc' = exc
    /\ readWhy' = [readWhy EXCEPT ![p] = "none"]
    /\ UNCHANGED <<sideVars, cfgVars, fsVars, ignore_cached, lockStaticMap, waited,
                   lockReturned, unlocks, saveFailed, unlockNoop, saveReturned>>

\* ---------------------------------------------------------------- Disk.save
\* Disk.save raises: the exception leaves getStaticMap through the finally.
SaveRaises(p) ==
    /\ exc' = [exc EXCEPT ![p] = "OSError"]
    /\ saveFailed' = [saveFailed EXCEPT ![p] = TRUE]
    /\ pc' = [pc EXCEPT ![p] = "finally"]

\* SaveMkstemp without the temporary file: the body is written in place, so
\* the artifact is opened (and truncated) at fullpath.
SaveMkstempInPlace(p) ==
    /\ pc[p] = "s_mkstemp"
    /\ file' = [exists |-> TRUE, body |-> EmptyBody, age |-> 0]
    /\ tmp' = [tmp EXCEPT ![p] = [exists |-> TRUE, body |-> EmptyBody, age |-> 0]]
    /\ pc' = [pc EXCEPT ![p] = "s_write"]
    /\ UNCHANGED <<sideVars, cfgVars, lockDir, localVars, histVars>>

\* os.makedirs(dirname(fullpath)) (errno 17 ignored) and
\* "fh, tmp_path = mkstemp(dir=self.cachepath, suffix=suffix)": an empty file
\* of a fresh name in the cache root.
SaveMkstemp(p) ==
    /\ pc[p] = "s_mkstemp"
    /\ tmp' = [tmp EXCEPT ![p] = [exists |-> TRUE, body |-> EmptyBody, age |-> 0]]
    /\ pc' = [pc EXCEPT ![p] = "s_write"]
    /\ UNCHANGED <<sideVars, cfgVars, file, lockDir, localVars, histVars>>

\* makedirs fails with an errno other than 17, or mkstemp fails
SaveMkstempFail(p) ==
    /\ pc[p] = "s_mkstemp"
    /\ SaveRaises(p)
    /\ UNCHANGED <<sideVars, cfgVars, fsVars, ignore_cached, body, tile, save, lockStaticMap, waited,
                   lockReturned, unlocks, readWhy, unlockNoop, noTileLeftBehind,
                   saveReturned>>

\* "os.write(fh, body); os.close(fh)"
SaveWrite(p) ==
    /\ pc[p] = "s_write"
    /\ tmp' = [tmp EXCEPT ![p] = [exists |-> TRUE, body |-> body[p], age |-> 0]]
    /\ pc' = [pc EXCEPT ![p] = "s_rename"]
    /\ UNCHANGED <<sideVars, cfgVars, file, lockDir, localVars, histVars>>

\* os.write fails (disk full): the temporary file stays as it is
SaveWriteFail(p) ==
    /\ pc[p] = "s_write"
    /\ SaveRaises(p)
    /\ UNCHANGED <<sideVars, cfgVars, fsVars, ignore_cached, body, tile, save, lockStaticMap, waited,
                   lockReturned, unlocks, readWhy, unlockNoop, noTileLeftBehind,
                   saveReturned>>

\* os.rename(tmp_path, fullpath) cannot replace the destination
RenameRefused == file.exists /\ ~renameOverwrites

\* the rename takes effect: the temporary file becomes the artifact
Renamed(p) ==
    /\ file' = tmp[p]
    /\ tmp' = [tmp EXCEPT ![p] = NoFile]
    /\ pc' = [pc EXCEPT ![p] = "s_chmod"]

\* "try: os.rename(tmp_path, fullpath)"; "except OSError:" leads to the unlink
SaveRename(p) ==
    /\ pc[p] = "s_rename"
    /\ IF RenameRefused
       THEN /\ pc' = [pc EXCEPT ![p] = "s_unlink"]
            /\ UNCHANGED <<file, tmp>>
       ELSE Renamed(p)
    /\ UNCHANGED <<sideVars, cfgVars, lockDir, localVars, histVars>>

\* "os.unlink(fullpath)" in the except branch; it raises if nothing is there
SaveUnlink(p) ==
    /\ pc[p] = "s_unlink"
    /\ IF file.exists
       THEN /\ file' = NoFile
            /\ pc' = [pc EXCEPT ![p] = "s_rename2"]
            /\ UNCHANGED <<exc, saveFailed>>
       ELSE /\ SaveRaises(p)
            /\ file' = file
    /\ UNCHANGED <<sideVars, cfgVars, lockDir, tmp, ignore_cached, body, tile, save, lockStaticMap,
                   waited, lockReturned, unlocks, readWhy, unlockNoop, noTileLeftBehind,
                   saveReturned>>

\* the second "os.rename(tmp_path, fullpath)", not guarded
SaveRename2(p) ==
    /\ pc[p] = "s_rename2"
    /\ IF RenameRefused
       THEN /\ SaveRaises(p)
            /\ UNCHANGED <<file, tmp>>
       ELSE /\ Renamed(p)
            /\ UNCHANGED <<exc, saveFailed>>
    /\ UNCHANGED <<sideVars, cfgVars, lockDir, ignore_cached, body, tile, save, lockStaticMap,
                   waited, lockReturned, unlocks, readWhy, unlockNoop, noTileLeftBehind,
                   saveReturned>>

\* "os.chmod(fullpath, 0666&~self.umask)", then save returns
SaveChmod(p) ==
    /\ pc[p] = "s_chmod"
    /\ IF file.exists
       THEN /\ saveReturned' = TRUE
            /\ pc' = [pc EXCEPT ![p] = "finally"]
            /\ UNCHANGED <<exc, saveFailed>>
       ELSE /\ SaveRaises(p)
            /\ saveReturned' = saveReturned
    /\ UNCHANGED <<sideVars, cfgVars, fsVars, ignore_cached, body, tile, save, lockStaticMap, waited,
                   lockReturned, unlocks, readWhy, unlockNoop, noTileLeftBehind>>

\* -------------------------------------------------------------- Disk.unlock
\* UnlockRaises without the except clause: rmdir of a missing marker raises.
UnlockRaisesIfAbsent(markerExists) == ~markerExists

\* Whether unlock lets the OSError of os.rmdir out: "except OSError: pass"
UnlockRaises(markerExists) == FALSE

\* Unlock without the finally: the unlock is skipped when an exception is in
\* flight.
UnlockNoFinally(p) ==
    /\ pc[p] = "finally"
    /\ IF lockStaticMap[p] /\ exc[p] = NoExc
       THEN /\ lockDir' = NoDir
            /\ unlocks' = [unlocks EXCEPT ![p] = @ + 1]
            /\ unlockNoop' = [unlockNoop EXCEPT ![p] = ~lockDir.exists]
       ELSE UNCHANGED <<lockDir, unlocks, unlockNoop>>
    /\ pc' = [pc EXCEPT ![p] = IF exc[p] # NoExc THEN "raised" ELSE "returned"]
    /\ readWhy' = [readWhy EXCEPT ![p] = "none"]
    /\ UNCHANGED <<sideVars, cfgVars, file, tmp, ignore_cached, body, tile, save, lockStaticMap,
                   waited, exc, lockReturned, saveFailed, noTileLeftBehind, saveReturned>>

\* "finally: if lockStaticMap: cache.unlock(...)", then getStaticMap returns
\* (mimetype, body) or the exception in flight goes on to the caller.
Unlock(p) ==
    /\ pc[p] = "finally"
    /\ IF lockStaticMap[p]
       THEN /\ lockDir' = NoDir
            /\ unlocks' = [unlocks EXCEPT ![p] = @ + 1]
            /\ unlockNoop' = [unlockNoop EXCEPT ![p] = ~lockDir.exists]
            /\ exc' = [exc EXCEPT ![p] = IF UnlockRaises(lockDir.exists) THEN "OSError" ELSE @]
       ELSE UNCHANGED <<lockDir, unlocks, unlockNoop, exc>>
    /\ pc' = [pc EXCEPT ![p] = IF exc'[p] # NoExc THEN "raised" ELSE "returned"]
    /\ readWhy' = [readWhy EXCEPT ![p] = "none"]
    /\ UNCHANGED <<sideVars, cfgVars, file, tmp, ignore_cached, body, tile, save, lockStaticMap, waited,
                   lockReturned, saveFailed, noTileLeftBehind, saveReturned>>

\* ------------------------------------------------------------ specification
Step(p) ==
    \/ Start(p)
    \/ ReadExists(p)
    \/ ReadStat(p)
    \/ TryBegin(p)
    \/ LockAttempt(p)
    \/ LockMkdir(p)
    \/ LockWake(p)
    \/ LockFail(p)
    \/ Render(p)
    \/ SaveMkstemp(p)
    \/ SaveMkstempFail(p)
    \/ SaveWrite(p)
    \/ SaveWriteFail(p)
    \/ SaveRename(p)
    \/ SaveUnlink(p)
    \/ SaveRename2(p)
    \/ SaveChmod(p)
    \/ Unlock(p)
    \/ Finish(p)

Next == Tick \/ \E p \in Procs: Step(p)

Spec == Init /\ [][Next]_vars

\* The makedirs of p's turn creates the lock directory.
LockTaken(p) == (LockAttempt(p) \/ LockMkdir(p)) /\ lockReturned'[p]

\* Fair scheduling: the clock goes on, every process that can take a step
\* takes one, and a waiter whose makedirs finds the directory absent again
\* and again is not beaten to it by another process every time.
Fairness ==
    /\ WF_vars(Tick)
    /\ \A p \in Procs: WF_vars(Step(p)) /\ SF_vars(LockTaken(p))

SpecFair == Spec /\ Fairness

\* ---------------------------------------------------------- renderStaticMap
\* Marker.renderStaticMap and Path.renderStaticMap, run by the threads of one
\* process: both take the module's one global_mapnik_lock.

\* A thread enters renderStaticMap of its layer's provider ("if self.mapnik
\* is None: ...", the icon download) and reaches
\* "if global_mapnik_lock.acquire():".
RenderCall(t) ==
    /\ tpc[t] = "idle"
    /\ \E c \in {"Marker", "Path"}: provider' = [provider EXCEPT ![t] = c]
    /\ tpc' = [tpc EXCEPT ![t] = "acquire"]
    /\ UNCHANGED <<renderOthers, mapnikLock>>

\* "global_mapnik_lock.acquire()" blocks until the lock is free
Acquire(t) ==
    /\ tpc[t] = "acquire"
    /\ mapnikLock = 0
    /\ mapnikLock' = t
    /\ tpc' = [tpc EXCEPT ![t] = "load"]
    /\ UNCHANGED <<renderOthers, provider>>

\* "self.mapnik.remove_all(); mapnik.load_map(...)" and the overlay layer
LoadMap(t) ==
    /\ tpc[t] = "load"
    /\ tpc' = [tpc EXCEPT ![t] = "render"]
    /\ UNCHANGED <<renderOthers, provider, mapnikLock>>

\* load_map (or the WKT of the path) raises: the exception leaves
\* renderStaticMap from inside the "if" block
LoadMapFail(t) ==
    /\ tpc[t] = "load"
    /\ tpc' = [tpc EXCEPT ![t] = "raised"]
    /\ UNCHANGED <<renderOthers, provider, mapnikLock>>

\* zoom_to_box, "mapnik.render(self.mapnik, img)" and the watermark blend
RenderImage(t) ==
    /\ tpc[t] = "render"
    /\ tpc' = [tpc EXCEPT ![t] = "release"]
    /\ UNCHANGED <<renderOthers, provider, mapnikLock>>

\* mapnik.render or Image.open of the watermark raises
RenderImageFail(t) ==
    /\ tpc[t] = "render"
    /\ tpc' = [tpc EXCEPT ![t] = "raised"]
    /\ UNCHANGED <<renderOthers, provider, mapnikLock>>

\* "global_mapnik_lock.release()", the last statement of the "if" block
Release(t) ==
    /\ tpc[t] = "release"
    /\ mapnikLock' = 0
    /\ tpc' = [tpc EXCEPT ![t] = "convert"]
    /\ UNCHANGED <<renderOthers, provider>>

\* "img = Image.fromstring(...)" and "return img"
Convert(t) ==
    /\ tpc[t] = "convert"
    /\ tpc' = [tpc EXCEPT ![t] = "returned"]
    /\ UNCHANGED <<renderOthers, provider, mapnikLock>>

\* the call is over; the thread takes its next request
RenderDone(t) ==
    /\ tpc[t] \in {"returned", "raised"}
    /\ tpc' = [tpc EXCEPT ![t] = "idle"]
    /\ UNCHANGED <<renderOthers, provider, mapnikLock>>

RenderStep(t) ==
    \/ RenderCall(t)
    \/ Acquire(t)
    \/ LoadMap(t)
    \/ LoadMapFail(t)
    \/ RenderImage(t)
    \/ RenderImageFail(t)
    \/ Release(t)
    \/ Convert(t)
    \/ RenderDone(t)

NextRender == \E t \in Threads: RenderStep(t)

InitRender ==
    /\ write_cache = TRUE
    /\ cache_lifespan = 0
    /\ renameOverwrites = TRUE
    /\ lockDir = NoDir
    /\ CallsInit
    /\ RenderInit
    /\ KeyIdle
    /\ ServeIdle

SpecRender == InitRender /\ [][NextRender]_vars

\* ------------------------------------------------------------- key of a map
\* Disk._filepath is called for two requests.
InitKey ==
    /\ write_cache = TRUE
    /\ cache_lifespan = 0
    /\ renameOverwrites = TRUE
    /\ lockDir = NoDir
    /\ CallsInit
    /\ RenderInit
    /\ ServeIdle
    /\ keyArgs \in [KeyCalls -> KeyArgs]
    /\ keyPath = [i \in KeyCalls |-> <<>>]
    /\ keyLockPath = [i \in KeyCalls |-> <<>>]

\* "filepath = self._filepath(layer, staticmap, format)" in _fullpath, and
\* "lockpath = self._lockpath(layer, staticmap, format)" for the same request
FilePath(i) ==
    /\ keyPath[i] = <<>>
    /\ keyPath' = [keyPath EXCEPT ![i] = _filepath(keyArgs[i])]
    /\ keyLockPath' = [keyLockPath EXCEPT ![i] = _lockpath(keyArgs[i])]
    /\ UNCHANGED <<keyOthers, keyArgs>>

NextKey == \E i \in KeyCalls: FilePath(i)

SpecKey == InitKey /\ [][NextKey]_vars

\* ------------------------------------------------------ WSGIServer.__call__
\* The threads of one server process handle requests for one layer; each
\* request stores its StaticMaps object in the layer's attribute staticmap,
\* and every later statement reaches the object through that attribute.

\* A request arrives; the query string has size and zoom.
Request(t) ==
    /\ wpc[t] = "idle"
    /\ \E q \in Queries: query' = [query EXCEPT ![t] = q]
    /\ wpc' = [wpc EXCEPT ![t] = "construct"]
    /\ UNCHANGED <<serveOthers, staticmap, served>>

\* "layer.staticmap = StaticMaps(w, h, zoom)"
Construct(t) ==
    /\ wpc[t] = "construct"
    /\ staticmap' = NewStaticMaps(query[t].zoom)
    /\ wpc' = [wpc EXCEPT ![t] = "markers"]
    /\ UNCHANGED <<serveOthers, query, served>>

\* ll2px and px2ll raise AssertionError for a zoom outside 0..30
ZoomAsserted(zoom) == MinZoom <= zoom /\ zoom <= MaxZoom

\* "if 'markers' in query: ... layer.staticmap.addMarker(lat, lon, icon)":
\* ll2px and px2ll with self.zoom, then center and marker are set.
AddMarker(t) ==
    /\ wpc[t] = "markers"
    /\ IF ~query[t].markers
       THEN /\ wpc' = [wpc EXCEPT ![t] = "path"]
            /\ staticmap' = staticmap
       ELSE IF ZoomAsserted(staticmap.zoom)
            THEN /\ staticmap' = [staticmap EXCEPT !.center = TRUE, !.marker = TRUE]
                 /\ wpc' = [wpc EXCEPT ![t] = "path"]
            ELSE /\ staticmap' = staticmap
                 /\ wpc' = [wpc EXCEPT ![t] = "raised"]
    /\ UNCHANGED <<serveOthers, query, served>>

RECURSIVE ILog2(_)
\* "int(math.log(x, 2))" for x of 1 and more
ILog2(x) == IF x < 2 THEN 0 ELSE 1 + ILog2(x \div 2)

\* "zoomLon = 21 - int(math.log(x, 2))", the like for zoomLat, and
\* "self.zoom = min(zoomLat, zoomLon)-180"
PathZoom(ext) == Min(21 - ILog2(ext[2]), 21 - ILog2(ext[1])) - 180

\* "if 'path' in query: ... layer.staticmap.addPath(static_path)": path and
\* center are set, then the zoom is computed; math.log raises ValueError for
\* an extent of 0.
AddPath(t) ==
    /\ wpc[t] = "path"
    /\ IF query[t].path = NoExtent
       THEN /\ wpc' = [wpc EXCEPT ![t] = "serve"]
            /\ staticmap' = staticmap
       ELSE LET ext == query[t].path IN
            IF ext[1] = 0 \/ ext[2] = 0
            THEN /\ staticmap' = [staticmap EXCEPT !.path = TRUE, !.center = TRUE]
                 /\ wpc' = [wpc EXCEPT ![t] = "raised"]
            ELSE /\ staticmap' = [staticmap EXCEPT !.path = TRUE, !.center = TRUE,
                                                   !.zoom = PathZoom(ext)]
                 /\ wpc' = [wpc EXCEPT ![t] = "serve"]
    /\ UNCHANGED <<serveOthers, query, served>>

\* "mimetype, content = getStaticMap(layer)": cache.read(layer,
\* layer.staticmap, format) computes the path of the key, which raises
\* AttributeError when the center is None, and then goes to the disk; on a
\* miss the lock, the renderer and the save follow with the same staticmap.
GetStaticMap(t) ==
    /\ wpc[t] = "serve"
    /\ IF staticmap.center
       THEN /\ served' = [served EXCEPT ![t] = {staticmap.zoom}]
            /\ wpc' = [wpc EXCEPT ![t] = "responded"]
       ELSE /\ served' = served
            /\ wpc' = [wpc EXCEPT ![t] = "raised"]
    /\ UNCHANGED <<serveOthers, query, staticmap>>

\* start_response('200 OK', headers), or the exception leaves __call__; the
\* thread takes its next request
Respond(t) ==
    /\ wpc[t] \in {"responded", "raised"}
    /\ wpc' = [wpc EXCEPT ![t] = "idle"]
    /\ served' = [served EXCEPT ![t] = {}]
    /\ query' = [query EXCEPT ![t] = NoQuery]
    /\ UNCHANGED <<serveOthers, staticmap>>

ServeStep(t) ==
    \/ Request(t)
    \/ Construct(t)
    \/ AddMarker(t)
    \/ AddPath(t)
    \/ GetStaticMap(t)
    \/ Respond(t)

NextServe == \E t \in Threads: ServeStep(t)

InitServe ==
    /\ write_cache = TRUE
    /\ cache_lifespan = 0
    /\ renameOverwrites = TRUE
    /\ lockDir = NoDir
    /\ CallsInit
    /\ RenderInit
    /\ KeyIdle
    /\ ServeIdle

SpecServe == InitServe /\ [][NextServe]_vars

\* ===================================================================== properties
Over(p) == pc[p] \in {"returned", "raised"}
SavePcs == {"s_mkstemp", "s_write", "s_rename", "s_unlink", "s_rename2", "s_chmod"}
ExistsPcs == {"r1_exists", "r2_exists"}
StatPcs == {"r1_stat", "r2_stat"}

\* A call that rendered a tile and passed it to cache.save, which did not fail.
SavedRender(p) == tile[p] # None /\ save[p] /\ ~saveFailed[p]

\* C1: at-most-one-render.  With write_cache set and no expiry, among calls
\* for the key that overlap in time at most one invokes the renderer for a
\* tile it persists (so the callers cannot hold different bytes).
C1_AtMostOneRender ==
    (write_cache /\ cache_lifespan = 0) =>
        Cardinality({p \in Procs: SavedRender(p)}) <= 1

\* A process is between the return of its cache.lock and its cache.unlock.
Holding(p) == lockReturned[p] /\ unlocks[p] = 0

\* C2: mutual exclusion under stale-lock reclamation.  At no time are two
\* processes both between the return of their lock() and their unlock().
C2_MutualExclusion == Cardinality({p \in Procs: Holding(p)}) <= 1

\* C3: guaranteed release.  When getStaticMap has returned or raised and its
\* cache.lock had returned, cache.unlock has run exactly once; it never runs
\* twice; in particular a renderer failure reaches the caller after the unlock.
C3_GuaranteedRelease ==
    \A p \in Procs:
        /\ unlocks[p] <= 1
        /\ (Over(p) /\ lockReturned[p]) => unlocks[p] = 1

C3_Witness ==
    \E p \in Procs:
        pc[p] = "raised" /\ exc[p] = "RenderError" /\ lockReturned[p] /\ unlocks[p] = 1

\* C4: no partial reads.  The artifact at the key's path always holds a
\* complete rendered body, and a read that returns a value returns a complete
\* rendered body: never the empty or half-written file of a save in progress.
C4_NoPartialReads ==
    /\ file.exists => file.body \in Procs
    /\ \A p \in Procs: readWhy[p] = "hit" => body[p] \in Procs

C4_Witness ==
    \E p, q \in Procs:
        /\ p # q
        /\ readWhy[p] = "hit"
        /\ body[p] \in Procs
        /\ pc[q] \in SavePcs
        /\ tmp[q].exists

\* C5: write-then-read ordering.  With no expiry, a read that begins after
\* some save has returned finds the artifact: its exists() test does not
\* answer "absent".
C5_WriteThenRead ==
    [][\A p \in Procs:
        (saveReturned /\ cache_lifespan = 0 /\ pc[p] \in ExistsPcs /\ pc'[p] # pc[p])
            => readWhy'[p] # "absent"]_vars

\* C6: persist failure does not lose the render.  A call whose render
\* succeeded and whose cache.save then failed returns the rendered bytes.
C6_PersistFailureKeepsRender ==
    \A p \in Procs:
        (Over(p) /\ tile[p] # None /\ saveFailed[p]) =>
            (pc[p] = "returned" /\ body[p] = tile[p])

\* C7: no leaked renderer lock.  global_mapnik_lock is held only by a thread
\* that is inside the renderer section; a thread whose render raised does not
\* hold it.
C7_RendererLockReleased ==
    \A t \in Threads: mapnikLock = t => tpc[t] \in {"load", "render", "release"}

\* C8: stale-lock hygiene.  A call to Disk.lock that finds, with no time
\* passed since the call, a marker older than stale_lock_timeout does not go
\* to sleep on it.
C8_StaleLockNoWait ==
    [][\A p \in Procs:
        (/\ pc[p] = "lock_loop"
         /\ waited[p] = 0
         /\ lockDir.exists
         /\ lockDir.age > StaleLockTimeout
         /\ pc'[p] # pc[p])
            => pc'[p] # "lock_sleep"]_vars

\* C9: release is a no-op when nothing is held.  An unlock that finds no
\* marker raises nothing and leaves the storage as it is.
C9_ReleaseNoop ==
    [][\A p \in Procs:
        (pc[p] = "finally" /\ pc'[p] # "finally" /\ lockStaticMap[p] /\ ~lockDir.exists)
            => (fsVars' = fsVars /\ exc'[p] = exc[p])]_vars

C9_Witness ==
    \E p \in Procs: pc[p] = "returned" /\ unlockNoop[p] /\ ~lockDir.exists

\* C10: expiry on read.  read returns None when there is no artifact, or when
\* cache_lifespan is non-zero and the artifact's age exceeds it, and the
\* stored bytes otherwise (lifespan 60: age 59 is served, age 61 is not;
\* lifespan 0 never expires); no step of read changes the storage.
C10_ExpiryOnRead ==
    /\ ~Expired(59, 60) /\ Expired(61, 60) /\ ~Expired(61, 0)
    /\ [][\A p \in Procs:
            /\ (pc[p] \in ExistsPcs /\ pc'[p] # pc[p]) =>
                    /\ fsVars' = fsVars
                    /\ ~file.exists => (body'[p] = None /\ exc'[p] = exc[p]
                                        /\ pc'[p] \in {"try", "render"})
            /\ (pc[p] \in StatPcs /\ pc'[p] # pc[p] /\ file.exists) =>
                    /\ fsVars' = fsVars
                    /\ exc'[p] = exc[p]
                    /\ body'[p] = IF cache_lifespan # 0 /\ file.age > cache_lifespan
                                  THEN None
                                  ELSE file.body
       ]_vars

C10_Witness ==
    \E p \in Procs:
        /\ readWhy[p] = "expired"
        /\ body[p] = None
        /\ file.exists
        /\ file.age > cache_lifespan

\* C11: do-not-persist signal.  A call whose renderer raised NoTileLeftBehind,
\* or whose layer has write_cache off, is never inside cache.save and has
\* created no temporary file; with write_cache off it neither takes nor
\* releases the lock; a call whose renderer raised NoTileLeftBehind ends by
\* returning the tile carried by the signal.  cache.save is entered only from
\* a render that returned normally with write_cache on.
C11_DoNotPersist ==
    /\ \A p \in Procs:
        /\ (noTileLeftBehind[p] \/ ~write_cache) =>
                (pc[p] \notin SavePcs /\ ~tmp[p].exists /\ ~saveFailed[p] /\ ~save[p])
        /\ ~write_cache =>
                (~InLock(p) /\ ~lockStaticMap[p] /\ ~lockReturned[p] /\ unlocks[p] = 0)
        /\ (Over(p) /\ noTileLeftBehind[p]) =>
                (pc[p] = "returned" /\ body[p] = tile[p] /\ tile[p] # None)
        /\ pc[p] \in SavePcs =>
                (write_cache /\ save[p] /\ tile[p] # None /\ body[p] = tile[p]
                 /\ ~noTileLeftBehind[p])
    /\ ~write_cache => (~saveReturned /\ ~file.exists)

C11_Witness ==
    \E p \in Procs:
        /\ write_cache
        /\ pc[p] = "returned"
        /\ noTileLeftBehind[p]
        /\ lockReturned[p]
        /\ body[p] = p
        /\ ~file.exists

\* C12: forced re-render.  A call with ignore_cached set that has ended has
\* returned, and what it returned is the tile its own call to the renderer
\* produced.
C12_ForcedRerender ==
    \A p \in Procs:
        (Over(p) /\ ignore_cached[p]) =>
            (pc[p] = "returned" /\ tile[p] # None /\ body[p] = tile[p])

\* The 1/10000 degree cell of the grid that a coordinate lies in.
Bucket(c) == c \div Cell

SameBuckets(a, b) == Bucket(a.lon) = Bucket(b.lon) /\ Bucket(a.lat) = Bucket(b.lat)
NoOverlay(a) == a.marker = NoMarker /\ a.path = NoPath
SameFrame(a, b) ==
    /\ a.layer = b.layer
    /\ a.zoom = b.zoom
    /\ a.width = b.width
    /\ a.height = b.height
    /\ a.format = b.format
Keyed(i) == keyPath[i] # <<>>

\* C13: key determinism.  Two requests without overlay that agree in layer,
\* zoom, width, height and format get the same path when their centres lie in
\* the same 1/10000 degree cell for longitude and for latitude, and different
\* paths when they do not.
C13_KeyDeterminism ==
    \A i, j \in KeyCalls:
        (/\ Keyed(i) /\ Keyed(j)
         /\ NoOverlay(keyArgs[i]) /\ NoOverlay(keyArgs[j])
         /\ SameFrame(keyArgs[i], keyArgs[j]))
            => (keyPath[i] = keyPath[j] <=> SameBuckets(keyArgs[i], keyArgs[j]))

C13_Witness ==
    /\ Keyed(1) /\ Keyed(2)
    /\ NoOverlay(keyArgs[1]) /\ NoOverlay(keyArgs[2])
    /\ SameFrame(keyArgs[1], keyArgs[2])
    /\ keyArgs[1].lon # keyArgs[2].lon
    /\ SameBuckets(keyArgs[1], keyArgs[2])
    /\ keyPath[1] = keyPath[2]

\* C14: key collision freedom.  Two requests that get the same path agree in
\* layer, zoom, size, the cell of their centre and their overlay: the same
\* marker icon or the same path or none.
C14_NoCollision ==
    \A i, j \in KeyCalls:
        (Keyed(i) /\ Keyed(j) /\ keyPath[i] = keyPath[j]) =>
            /\ SameFrame(keyArgs[i], keyArgs[j])
            /\ SameBuckets(keyArgs[i], keyArgs[j])
            /\ keyArgs[i].marker = keyArgs[j].marker
            /\ keyArgs[i].path = keyArgs[j].path

\* C15: invalid zoom fails fast.  Every zoom with which getStaticMap goes to
\* the cache and to the renderer lies within 0..30: a request whose zoom, as
\* supplied or as recomputed for its path, lies outside is rejected before.
C15_InvalidZoomFailsFast ==
    \A t \in Threads: \A z \in served[t]: MinZoom <= z /\ z <= MaxZoom

\* C16: forcible removal only of stale markers.  A waiter's turn that removes
\* an existing lock directory removes one whose own age exceeds
\* stale_lock_timeout.
C16_OnlyStaleRemoved ==
    [][\A p \in Procs:
        (pc[p] = "lock_loop" /\ pc'[p] = "lock_mkdir" /\ lockDir.exists /\ ~lockDir'.exists)
            => lockDir.age > StaleLockTimeout]_vars

ReadPcs == ExistsPcs \cup StatPcs

\* C17: overwrite never hides an existing entry.  With no expiry, while a
\* save is replacing an artifact through the unlink and the second rename, a
\* step of a read by another process ends neither with None nor with an error.
C17_OverwriteNeverHides ==
    [][\A p, q \in Procs:
        (/\ p # q
         /\ cache_lifespan = 0
         /\ pc[q] \in {"s_unlink", "s_rename2"}
         /\ pc[p] \in ReadPcs
         /\ pc'[p] # pc[p])
            => readWhy'[p] \notin {"absent", "error"}]_vars

\* The read after the lock has just returned an entry.
RecheckHit(p) == pc[p] = "finally" /\ readWhy[p] = "hit"

\* C18: re-check after lock.  A call that missed and then took the lock reads
\* the cache again; when that read finds an unexpired entry the call goes to
\* its finally with the entry as body, and returns it: it has no tile, has
\* saved nothing, and the storage is as the read found it.
C18_RecheckAfterLock ==
    /\ [](\A p \in Procs:
            /\ RecheckHit(p) =>
                    (/\ lockReturned[p] \/ ~write_cache
                     /\ body[p] \in Procs
                     /\ tile[p] = None /\ ~save[p] /\ ~saveFailed[p] /\ ~tmp[p].exists
                     /\ exc[p] = NoExc)
            /\ (pc[p] = "returned" /\ lockReturned[p] /\ tile[p] = None) =>
                    (body[p] \in Procs /\ ~save[p] /\ ~tmp[p].exists))
    /\ [][\A p \in Procs:
            /\ (/\ pc[p] = "r2_stat" /\ pc'[p] # pc[p]
                /\ file.exists /\ ~Expired(file.age, cache_lifespan)) =>
                    (/\ pc'[p] = "finally"
                     /\ body'[p] = file.body
                     /\ tile'[p] = None
                     /\ fsVars' = fsVars)
            /\ (RecheckHit(p) /\ pc'[p] # pc[p]) =>
                    (pc'[p] = "returned" /\ body'[p] = body[p] /\ file' = file /\ tmp' = tmp)
       ]_vars

C18_Witness ==
    \E p, q \in Procs:
        /\ p # q
        /\ pc[p] = "returned"
        /\ lockReturned[p]
        /\ unlocks[p] = 1
        /\ tile[p] = None
        /\ body[p] = q
        /\ saveReturned
        /\ file.exists /\ file.body = q

\* The first read has just returned an entry: the call returns without a try
\* block.
FirstReadHit(p) == pc[p] = "returned" /\ readWhy[p] = "hit"

\* C19: a cache hit is lock-free and side-effect-free.  When the first read
\* finds an unexpired entry, the call returns that entry at once: it has not
\* taken or released the lock, has not rendered and has not saved, and its
\* read steps leave artifacts and lock markers as they are.
C19_HitIsLockFree ==
    /\ [](\A p \in Procs:
            FirstReadHit(p) =>
                (/\ body[p] \in Procs
                 /\ ~lockStaticMap[p] /\ ~lockReturned[p] /\ unlocks[p] = 0
                 /\ tile[p] = None /\ ~save[p] /\ ~saveFailed[p] /\ ~tmp[p].exists
                 /\ exc[p] = NoExc))
    /\ [][\A p \in Procs:
            /\ (pc[p] \in FirstReadPcs /\ pc'[p] # pc[p]) => fsVars' = fsVars
            /\ (/\ pc[p] = "r1_stat" /\ pc'[p] # pc[p]
                /\ file.exists /\ ~Expired(file.age, cache_lifespan)) =>
                    (/\ pc'[p] = "returned"
                     /\ body'[p] = file.body
                     /\ unlocks'[p] = 0 /\ ~lockReturned'[p] /\ tile'[p] = None)
       ]_vars

C19_Witness ==
    \E p, q \in Procs:
        /\ p # q
        /\ FirstReadHit(p)
        /\ body[p] = q
        /\ lockDir.exists
        /\ Holding(q)

IconSlug(icon) ==
    CASE icon = <<"a", ".", "b">> -> <<"a", "-", "b">>
      [] icon = <<"a", "-", "b">> -> <<"a", "-", "b">>
      [] icon = <<"c", "/", "a", ".", "b">> -> <<"a", "-", "b">>

\* layer_id/zoom/qlon/qlat_WIDTHxHEIGHT[_iconslug].format, with
\* qlon = floor((lon+180)*10000), qlat = floor((lat+90)*10000)
KeyFormatOf(a) ==
    LET qlon == (a.lon + 180 * Degree) \div Cell
        qlat == (a.lat + 90 * Degree) \div Cell
        slug == IF a.marker # NoMarker THEN <<"_">> \o IconSlug(a.marker) ELSE <<>>
    IN  a.layer \o <<"/">> \o Str(a.zoom) \o <<"/">> \o Str(qlon) \o <<"/">> \o
        Str(qlat) \o <<"_">> \o Str(a.width) \o <<"x">> \o Str(a.height) \o
        slug \o <<".", "p", "n", "g">>

KeyFormatHolds(i) ==
    /\ keyPath[i] = KeyFormatOf(keyArgs[i])
    /\ keyLockPath[i] = cachepath \o <<"/">> \o keyPath[i] \o <<".", "l", "o", "c", "k">>

\* C21 as stated: every key returned has the format layer_id/zoom/qlon/
\* qlat_WIDTHxHEIGHT[_iconslug].format, the lock path is the path plus
\* '.lock', and layer 'markers', 600x300, zoom 8, center (12.0, -35.0) without
\* overlay gives markers/8/1450000/1220000_600x300.png.
C21_KeyFormatAsStated ==
    \A i \in KeyCalls:
        keyPath[i] # <<>> =>
            /\ KeyFormatHolds(i)
            /\ keyArgs[i] = KeyExample =>
                    keyPath[i] = <<"m", "a", "r", "k", "e", "r", "s", "/", "8", "/", "1", "4", "5", "0", "0", "0", "0", "/", "1", "2", "2", "0", "0", "0", "0", "_", "6", "0", "0", "x", "3", "0", "0", ".", "p", "n", "g">>

\* C21: every key returned by Disk._filepath for a center with lon >= -180
\* and lat >= -90 has the format layer_id/zoom/qlon/qlat_WIDTHxHEIGHT[_iconslug]
\* .format with the floor quantization, the lower-cased format and the icon
\* slug exactly when there is a marker; the lock path is the cache root joined
\* with that path plus '.lock'; layer 'markers', 600x300, zoom 8,
\* center (12.0, -35.0) without overlay gives
\* markers/8/1450000/1020000_600x300.png.
C21_KeyFormat ==
    \A i \in KeyCalls:
        keyPath[i] # <<>> =>
            /\ KeyFormatHolds(i)
            /\ keyArgs[i] = KeyExample =>
                    keyPath[i] = <<"m", "a", "r", "k", "e", "r", "s", "/", "8", "/", "1", "4", "5", "0", "0", "0", "0", "/", "1", "0", "2", "0", "0", "0", "0", "_", "6", "0", "0", "x", "3", "0", "0", ".", "p", "n", "g">>

\* The example request and a request with a marker have both been keyed.
C21_Witness ==
    /\ keyArgs[1] = KeyExample /\ keyPath[1] # <<>> /\ keyLockPath[1] # <<>>
    /\ keyArgs[2].marker # NoMarker /\ keyPath[2] # <<>>

\* ---- C22 ----

\* C22: for every path with at least one point, addPath completes, sets the
\* center and the path, and sets the zoom to the smaller of the two per-axis
\* zooms of the points, whatever zoom the constructor was given.
C22_PathFraming ==
    [][\A t \in Threads:
        (wpc[t] = "path" /\ query[t].path # NoExtent /\ wpc'[t] # wpc[t]) =>
            (/\ wpc'[t] = "serve"
             /\ staticmap'.center /\ staticmap'.path
             /\ staticmap'.zoom = PathZoom(query[t].path))]_vars

\* ---- C23 ----

\* The zoom of the image that answers the request of thread t: the one framed
\* from its path when it has one, otherwise the one of its query
OwnZoom(t) ==
    IF query[t].path # NoExtent THEN PathZoom(query[t].path) ELSE query[t].zoom

\* C23: with two threads handling requests for the same layer, each
\* getStaticMap call works for its own request only: what a caller is given
\* was read, rendered and saved for the parameters of its own request.
C23_OwnRequestServed ==
    \A t \in Threads: \A z \in served[t]: z = OwnZoom(t)

\* ---- C24 ----

\* C24: release never frees another holder's lock.  When process q is between
\* its lock() and its unlock() and the marker on disk is the one q created,
\* the unlock in the finally block of another process p, whose own marker was
\* reclaimed as stale, leaves q's marker in place.
C24_ReleaseKeepsOthersLock ==
    [][\A p, q \in Procs:
        (/\ p # q
         /\ pc[p] = "finally" /\ pc'[p] # pc[p] /\ lockReturned[p]
         /\ Holding(q) /\ lockDir.exists /\ lockDir.by = q)
            => (lockDir'.exists /\ lockDir'.by = q)]_vars

\* ---- C25 ----

\* C25: a failed save leaves the entry intact.  Once Disk.save has raised in
\* a call, no temporary file of that call is left in the cache root.
C25_FailedSaveLeavesNoTemp ==
    \A p \in Procs: saveFailed[p] => ~tmp[p].exists

\* ---- C26 ----

\* C26: unlock only after a successful acquire.  A call of getStaticMap has
\* called cache.unlock only if its own cache.lock returned.
C26_UnlockOnlyAfterAcquire ==
    \A p \in Procs: unlocks[p] >= 1 => lockReturned[p]

====
